---- MODULE Spec2Model ----
(***************************************************************************)
(* SimpleServe: a file server that maps URL path layers onto a directory   *)
(* tree, runs executables found there as pipeline stages and maps their    *)
(* exit codes to HTTP statuses (src/src/serve.rs, src/src/main.rs).        *)
(*                                                                         *)
(* Text is modelled as sequences of one-character (or one-word) tokens,    *)
(* paths as sequences of components, so that prefix tests, splitting and   *)
(* decimal formatting are computed rather than assumed.                    *)
(*                                                                         *)
(* Environment assumptions of the request specification: anonymous         *)
(* temporary files can be created, the request body can be collected,      *)
(* regular files of the served tree are readable and the external          *)
(* `file -ib` classifier succeeds.  Spawning a stage may fail.             *)
(***************************************************************************)
EXTENDS Integers, Sequences, FiniteSets, TLC

VARIABLES
    main_pc,    \* position of main(): "start", "install", "serving", "exited"
    env_i,      \* loop index of the set_var loop of main()
    env,        \* process environment: decimal key -> decimal value
    pc,         \* position of the serving task: "idle", "resolve", "done";
                \* "hf", "hf_done" around a lone handle_file call
    fs,         \* the served tree along the request's path
    layers,     \* URL path layers of the request being served
    state,      \* the ProcessingState the task holds
    procs,      \* child processes spawned for the request, in spawn order
    error,      \* Option<(origin, code)> of the resolver's chain loop
    k,          \* number of chain entries the resolver's loop has visited
    call,       \* arguments of the latest handle_file invocation
    done,       \* whether the latest walk returned Done rather than BackTrack
    walk,       \* the latest walk: the layers it was given and the directories
                \* whose `.base` it tested, in the order of the tests
    resp        \* the response returned by serve

vars ==
    <<main_pc, env_i, env, pc, fs, layers, state, procs, error, k, call, done,
      walk, resp>>

(***************************************************************************)
(* Bounds of the model.                                                    *)
(***************************************************************************)
MaxLayers == 2      \* longest URL path, in layers
MaxSpawns == 2      \* children of one request the model remembers at a time
PipeCap == 3        \* bytes a pipe holds before a write to it blocks

(***************************************************************************)
(* Text helpers.                                                           *)
(***************************************************************************)
DigitChars == <<"0", "1", "2", "3", "4", "5", "6", "7", "8", "9">>

RECURSIVE to_string(_)
\* u16::to_string / usize::to_string: decimal, no sign, no leading zeros
to_string(n) ==
    IF n < 10 THEN <<DigitChars[n + 1]>>
    ELSE Append(to_string(n \div 10), DigitChars[(n % 10) + 1])

DigitValue(c) == CHOOSE d \in 0..9 : DigitChars[d + 1] = c

RECURSIVE parse_int(_)
\* the shell's reading of a decimal word, as in `exit ${403}`
parse_int(s) ==
    IF s = <<>> THEN 0
    ELSE 10 * parse_int(SubSeq(s, 1, Len(s) - 1)) + DigitValue(s[Len(s)])

RECURSIVE Flatten(_)
Flatten(ss) == IF ss = <<>> THEN <<>> ELSE Head(ss) \o Flatten(Tail(ss))

SatSub(a, b) == IF a > b THEN a - b ELSE 0

Clamp(x, lo, hi) == IF x < lo THEN lo ELSE IF x > hi THEN hi ELSE x

(***************************************************************************)
(* The exit-code table and its publication.                                *)
(***************************************************************************)
EXIT_CODES ==
    <<200,
      100, 101, 102, 103,
      200, 201, 202, 203, 204, 205, 206, 207, 208, 226,
      300, 301, 302, 303, 304, 305, 306, 307, 308,
      400, 401, 402, 403, 404, 405, 406, 407, 408, 409, 410, 411, 412, 413,
      414, 415, 416, 417, 418,
      421, 422, 423, 424, 425, 426, 428, 429, 431, 451,
      500, 501, 502, 503, 504, 505, 506, 507, 508, 510, 511>>

NoCode == -1    \* Option<i32>::None: the child was ended by a signal

\* a variant that reads the table one entry too early
to_exit_code_shifted(res) ==
    IF res = NoCode \/ res < 0 \/ res >= Len(EXIT_CODES) THEN 500
    ELSE IF res = 0 THEN 200 ELSE EXIT_CODES[res]

\* to_exit_code: the table entry at index r, 500 beyond the table or without
\* an exit code (EXIT_CODES is 0-based in the source, 1-based here)
to_exit_code(res) ==
    IF res = NoCode \/ res < 0 \/ res >= Len(EXIT_CODES) THEN 500
    ELSE EXIT_CODES[res + 1]

status_is_ok(status) == status >= 200 /\ status < 300

\* env::set_var(key, value)
set_var(e, key, value) ==
    [x \in DOMAIN e \cup {key} |-> IF x = key THEN value ELSE e[x]]

(***************************************************************************)
(* Paths and the served tree.                                              *)
(***************************************************************************)
Dot == <<".">>
SegA == <<"a">>
SegB == <<"b">>
DotDot == <<".", ".">>
IndexName == <<".", "i", "n", "d", "e", "x">>
BaseName == <<".", "b", "a", "s", "e">>

\* str::starts_with
starts_with(s, prefix) ==
    Len(s) >= Len(prefix) /\ SubSeq(s, 1, Len(prefix)) = prefix

\* the canonical base directory handed to serve: /w
BaseDir == << <<"/">>, <<"w">> >>

\* Path::parent: None for the root component alone
HasParent(p) == Len(p) > 1
Parent(p) == SubSeq(p, 1, Len(p) - 1)

\* Path::components().count()
components_count(p) == Len(p)

\* The trees the requests are served from: one entry per directory level
\* (base/a, base/a/b), each directory with an optional `.index` and `.base`.
Spine == <<SegA, SegB>>
SpineDir(i) == BaseDir \o SubSeq(Spine, 1, i)
SpinePaths ==
    {SpineDir(i) : i \in 1..Len(Spine)}
    \cup {Append(SpineDir(i), IndexName) : i \in 0..Len(Spine)}
    \cup {Append(SpineDir(i), BaseName) : i \in 0..Len(Spine)}

Kinds == {"missing", "dir", "file", "exec"}

KindIn(kf, p) ==
    IF p = BaseDir THEN "dir"
    ELSE IF p \in DOMAIN kf THEN kf[p] ELSE "missing"

WellFormed(kf) ==
    \A p \in SpinePaths :
        /\ kf[p] # "missing" => KindIn(kf, Parent(p)) = "dir"
        /\ p[Len(p)] = BaseName => kf[p] \in {"missing", "file"}

KindMaps == {kf \in [SpinePaths -> Kinds] : WellFormed(kf)}

\* at most one entry of the tree is a symbolic link whose target lies
\* outside the base directory (the entry's kind is the kind of its target)
LinkChoices(kf) ==
    {{}} \cup {{p} : p \in {q \in SpinePaths : kf[q] # "missing" /\ q[Len(q)] # BaseName}}

FileSystems ==
    UNION {{[kind |-> kf, esc |-> e] : e \in LinkChoices(kf)} : kf \in KindMaps}

EmptyTree == [kind |-> [p \in SpinePaths |-> "missing"], esc |-> {}]

\* The part of tree f that lies along the request path ls: the directories
\* base/ls[1]/../ls[i] and their `.index` and `.base`.  The walks of one
\* request (the first and the error re-walks) stat nothing else.
along(p, ls) ==
    LET d == IF p[Len(p)] \in {IndexName, BaseName} THEN Parent(p) ELSE p
        n == Len(d) - Len(BaseDir)
    IN  n <= Len(ls) /\ d = BaseDir \o SubSeq(ls, 1, n)

visible(f, ls) ==
    [kind |-> [p \in SpinePaths |-> IF along(p, ls) THEN f.kind[p] ELSE "missing"],
     esc |-> {p \in f.esc : along(p, ls)}]

\* Path::exists, Path::is_dir, is_executable: all follow symbolic links
exists(f, p) == KindIn(f.kind, p) # "missing"
is_dir(f, p) == KindIn(f.kind, p) = "dir"
is_executable(f, p) == KindIn(f.kind, p) = "exec"

\* the canonical location of p lies outside the canonical base directory
Outside(f, p) == \E i \in 1..Len(p) : SubSeq(p, 1, i) \in f.esc

\* every regular file holds its own path as text
FileContent(p) == Flatten(p)

(***************************************************************************)
(* ProcessingState and the child processes.                                *)
(***************************************************************************)
ErrorCode(e) ==
    [tag |-> "ErrorCode", status |-> e, msg |-> "", origin |-> <<>>,
     data |-> <<>>, chain |-> <<>>]
InternalError(e, m) ==
    [tag |-> "InternalError", status |-> e, msg |-> m, origin |-> <<>>,
     data |-> <<>>, chain |-> <<>>]
Static(d, o, s) ==
    [tag |-> "Static", status |-> s, msg |-> "", origin |-> o,
     data |-> d, chain |-> <<>>]
Chain(c, s) ==
    [tag |-> "Chain", status |-> s, msg |-> "", origin |-> <<>>,
     data |-> <<>>, chain |-> c]
\* HttpError(e): status() answers 500 for it
HttpError ==
    [tag |-> "HttpError", status |-> 500, msg |-> "", origin |-> <<>>,
     data |-> <<>>, chain |-> <<>>]
\* the task after todo!() in handle_code: it has panicked, its state is dropped
Panicked ==
    [tag |-> "Panicked", status |-> 0, msg |-> "", origin |-> <<>>,
     data |-> <<>>, chain |-> <<>>]
NoState == ErrorCode(0)

status_of(s) == s.status
is_ok(s) == status_is_ok(status_of(s))

NoStdin == [kind |-> "none", data |-> <<>>, src |-> 0]
FileStdin(d) == [kind |-> "file", data |-> d, src |-> 0]
PipeStdin(pid) == [kind |-> "pipe", data |-> <<>>, src |-> pid]

\* Command::spawn: a running child with piped stdout.  A child is "running",
\* "blocked" in a write to its full stdout pipe, a "zombie" once it has ended,
\* and "reaped" once it has been waited for.
NewChild(o, input) ==
    [origin |-> o, st |-> "running", sigkill |-> FALSE, stdin |-> input,
     stdout_taken |-> FALSE, stderr_piped |-> FALSE, code |-> NoCode,
     out |-> <<>>, err |-> <<>>]

\* what is left of the children once a chain has been resolved: a reaped
\* child keeps its place, its origin and its exit code, its pipes are closed
Reaped(c) ==
    [origin |-> c.origin, st |-> "reaped", sigkill |-> c.sigkill,
     stdin |-> NoStdin, stdout_taken |-> TRUE, stderr_piped |-> FALSE,
     code |-> c.code, out |-> <<>>, err |-> <<>>]
scrub(ps) == [i \in 1..Len(ps) |-> IF ps[i].st = "reaped" THEN Reaped(ps[i]) ELSE ps[i]]

\* Child::kill: SIGKILL unless the child was already waited for
kill(ps, pid) ==
    IF ps[pid].st = "reaped" THEN ps
    ELSE IF ps[pid].st \in {"running", "blocked"}
         THEN [ps EXCEPT ![pid].st = "zombie", ![pid].sigkill = TRUE]
         ELSE [ps EXCEPT ![pid].sigkill = TRUE]

RECURSIVE kill_all(_, _)
kill_all(ps, c) ==
    IF c = <<>> THEN ps ELSE kill_all(kill(ps, Head(c).pid), Tail(c))

halt_processing(s, ps) ==
    IF s.tag = "Chain" THEN kill_all(ps, s.chain) ELSE ps

Result(s, ps) == [st |-> s, procs |-> ps]

(***************************************************************************)
(* handle_file: the stage builder.                                         *)
(***************************************************************************)
OsFaults == {"none", "tempfile", "spawn"}

\* a variant that never looks for `.index`
candidate_plain(f, file) == file

\* the candidate path: a directory stands for its `.index`
candidate(f, file) == IF is_dir(f, file) THEN Append(file, IndexName) ELSE file

\* a variant that answers 404 whatever the incoming status
handle_missing_always(prev_state, ps) ==
    Result(ErrorCode(404), halt_processing(prev_state, ps))

handle_missing(prev_state, ps) ==
    IF is_ok(prev_state)
    THEN Result(ErrorCode(404), halt_processing(prev_state, ps))
    ELSE Result(prev_state, ps)

handle_teapot(prev_state, ps) ==
    Result(ErrorCode(418), halt_processing(prev_state, ps))

\* (input_opt, prev_chain, status) of the executable branch
stage_input(os, ps, prev_state) ==
    IF prev_state.tag = "Chain" THEN
        LET c == prev_state.chain IN
        [input |-> IF c = <<>> \/ ps[c[Len(c)].pid].stdout_taken
                   THEN NoStdin ELSE PipeStdin(c[Len(c)].pid),
         procs |-> IF c = <<>> THEN ps
                   ELSE [ps EXCEPT ![c[Len(c)].pid].stdout_taken = TRUE],
         prev_chain |-> c, status |-> prev_state.status]
    ELSE IF prev_state.tag = "Static" THEN
        [input |-> FileStdin(prev_state.data), procs |-> ps,
         prev_chain |-> <<>>, status |-> prev_state.status]
    ELSE
        [input |-> IF os = "tempfile" THEN NoStdin ELSE FileStdin(<<>>),
         procs |-> ps, prev_chain |-> <<>>, status |-> status_of(prev_state)]

handle_executable(os, ps, file, prev_state) ==
    IF ~HasParent(file) THEN
        Result(InternalError(500, "Could not determine parent folder"),
               halt_processing(prev_state, ps))
    ELSE IF os = "tempfile" THEN
        Result(InternalError(500, "Could not create header tempfile"),
               halt_processing(prev_state, ps))
    ELSE
        LET i == stage_input(os, ps, prev_state) IN
        IF i.input = NoStdin THEN
            Result(InternalError(500, "Could not ascertain input from previous processing state"),
                   kill_all(i.procs, i.prev_chain))
        ELSE IF os = "spawn" THEN
            Result(InternalError(500, "Error running command"),
                   kill_all(i.procs, i.prev_chain))
        ELSE
            Result(Chain(Append(i.prev_chain,
                                [pid |-> Len(ps) + 1, origin |-> file]),
                         i.status),
                   Append(i.procs, NewChild(file, i.input)))

\* a variant that serves every static file with status 200
handle_static_ok(f, ps, file, prev_state) ==
    IF prev_state.tag = "Chain" THEN Result(Panicked, ps)
    ELSE Result(Static(FileContent(file), file, 200), ps)

\* handle_code: Some(status), None, or the todo!() panic for a Chain
handle_static(f, ps, file, prev_state) ==
    IF prev_state.tag = "Chain" THEN Result(Panicked, ps)
    ELSE IF prev_state.tag \notin {"ErrorCode", "InternalError", "Static"} THEN
        Result(InternalError(500, "Non-error code handed to static file"), ps)
    ELSE Result(Static(FileContent(file), file, prev_state.status), ps)

handle_file(f, os, ps, file, prev_state) ==
    IF prev_state.tag = "HttpError" THEN Result(prev_state, ps)
    ELSE
        LET p == candidate(f, file) IN
        IF ~exists(f, p) THEN handle_missing(prev_state, ps)
        ELSE IF is_dir(f, p) THEN handle_teapot(prev_state, ps)
        ELSE IF is_executable(f, p) THEN handle_executable(os, ps, p, prev_state)
        ELSE handle_static(f, ps, p, prev_state)

(***************************************************************************)
(* handle_layer: the path walker and the backtrack controller.             *)
(***************************************************************************)
\* a variant that rejects `..` only
hidden_layer_dotdot(layer) == layer = DotDot

\* the dot-prefix test of handle_layer
hidden_layer(layer) == starts_with(layer, Dot)

RECURSIVE handle_layer_rechecking(_, _, _, _, _, _)
\* a variant whose enclosing levels test their own `.base` after a Done too
handle_layer_rechecking(f, os, ps, curr_layer, remaining_layers, incoming_body) ==
    LET res ==
            IF remaining_layers = <<>> THEN
                LET r == handle_file(f, os, ps, curr_layer, incoming_body) IN
                [done |-> FALSE, st |-> r.st, procs |-> r.procs,
                 call |-> <<[file |-> curr_layer, prev |-> incoming_body,
                             procs |-> ps]>>,
                 checks |-> <<>>]
            ELSE IF hidden_layer(remaining_layers[1]) THEN
                [done |-> FALSE, st |-> ErrorCode(403), procs |-> ps,
                 call |-> <<>>, checks |-> <<>>]
            ELSE
                handle_layer_rechecking(f, os, ps,
                                        Append(curr_layer, remaining_layers[1]),
                                        Tail(remaining_layers), incoming_body)
    IN  [res EXCEPT !.done = @ \/ exists(f, Append(curr_layer, BaseName)),
                    !.checks = Append(@, curr_layer)]

RECURSIVE handle_layer_composing(_, _, _, _, _, _)
\* a variant that hands the state coming back from below to handle_file at
\* every enclosing level
handle_layer_composing(f, os, ps, curr_layer, remaining_layers, incoming_body) ==
    LET res ==
            IF remaining_layers = <<>> THEN
                LET r == handle_file(f, os, ps, curr_layer, incoming_body) IN
                [done |-> FALSE, st |-> r.st, procs |-> r.procs,
                 call |-> <<[file |-> curr_layer, prev |-> incoming_body,
                             procs |-> ps]>>,
                 checks |-> <<>>]
            ELSE IF hidden_layer(remaining_layers[1]) THEN
                [done |-> FALSE, st |-> ErrorCode(403), procs |-> ps,
                 call |-> <<>>, checks |-> <<>>]
            ELSE
                LET below == handle_layer_composing(f, os, ps,
                                 Append(curr_layer, remaining_layers[1]),
                                 Tail(remaining_layers), incoming_body)
                IN  IF below.done \/ below.st.tag = "Panicked" THEN below
                    ELSE LET r == handle_file(f, os, below.procs, curr_layer, below.st)
                         IN [below EXCEPT
                                !.st = r.st, !.procs = r.procs,
                                !.call = Append(@, [file |-> curr_layer,
                                                    prev |-> below.st,
                                                    procs |-> below.procs])]
    IN  IF res.done THEN res
        ELSE [res EXCEPT !.done = exists(f, Append(curr_layer, BaseName)),
                         !.checks = Append(@, curr_layer)]

RECURSIVE handle_layer(_, _, _, _, _, _)
\* answers [done, st, procs, call, checks]: Done(st) or BackTrack(st), the
\* children after the walk, the handle_file invocation made, if any, and the
\* directories whose `.base` was tested.  A Done from the level below leaves
\* through `?` at once.
handle_layer(f, os, ps, curr_layer, remaining_layers, incoming_body) ==
    LET res ==
            IF remaining_layers = <<>> THEN
                LET r == handle_file(f, os, ps, curr_layer, incoming_body) IN
                [done |-> FALSE, st |-> r.st, procs |-> r.procs,
                 call |-> <<[file |-> curr_layer, prev |-> incoming_body,
                             procs |-> ps]>>,
                 checks |-> <<>>]
            ELSE IF hidden_layer(remaining_layers[1]) THEN
                [done |-> FALSE, st |-> ErrorCode(403), procs |-> ps,
                 call |-> <<>>, checks |-> <<>>]
            ELSE
                handle_layer(f, os, ps, Append(curr_layer, remaining_layers[1]),
                             Tail(remaining_layers), incoming_body)
    IN  IF res.done THEN res
        ELSE [res EXCEPT !.done = exists(f, Append(curr_layer, BaseName)),
                         !.checks = Append(@, curr_layer)]

\* a variant that takes a Done for a failure of the walk
inner_backtrack_only(s) ==
    IF s.done THEN InternalError(500, "walk did not come back") ELSE s.st

\* inner: the state of a Done or of a BackTrack alike
inner(s) == s.st

(***************************************************************************)
(* Responses.                                                              *)
(***************************************************************************)
NoHeaders == <<>>
HdrContentLength == <<"content-length">>

\* HeaderName: legal tokens only, compared case-insensitively
NameTokens == {"Content-Length", "content-length", "Content-Type", "X-Foo"}
lower(t) ==
    CASE t = "Content-Length" -> "content-length"
      [] t = "Content-Type" -> "content-type"
      [] t = "X-Foo" -> "x-foo"
      [] OTHER -> t
valid_name(key) == key # <<>> /\ \A i \in 1..Len(key) : key[i] \in NameTokens
header_name(key) == [i \in 1..Len(key) |-> lower(key[i])]
\* HeaderValue: no control characters
valid_value(value) == \A i \in 1..Len(value) : value[i] \notin {"\n", "\r"}

\* http::response::Builder: the first invalid part poisons the builder
Builder(s) == [err |-> s < 100 \/ s > 999, status |-> s, headers |-> NoHeaders]
b_header(b, key, value) ==
    IF b.err THEN b
    ELSE IF ~valid_name(key) \/ ~valid_value(value) THEN [b EXCEPT !.err = TRUE]
    ELSE [b EXCEPT !.headers = Append(@, [name |-> header_name(key), value |-> value])]
\* Builder::body: Err(http::Error) of a poisoned builder
HttpFailure == [ok |-> FALSE, status |-> 0, headers |-> NoHeaders, body |-> <<>>]
b_body(b, body) ==
    IF b.err THEN HttpFailure
    ELSE [ok |-> TRUE, status |-> b.status, headers |-> b.headers, body |-> body]

NoResp == [ok |-> FALSE, status |-> 0, headers |-> NoHeaders, body |-> <<"-">>]

RECURSIVE remove_header(_, _)
remove_header(h, name) ==
    IF h = <<>> THEN <<>>
    ELSE IF Head(h).name = name THEN remove_header(Tail(h), name)
    ELSE <<Head(h)>> \o remove_header(Tail(h), name)

\* HeaderMap::insert: replaces every value of the name
headers_insert(h, name, value) ==
    Append(remove_header(h, name), [name |-> name, value |-> value])

header_values(h, name) == SelectSeq(h, LAMBDA e : e.name = name)

ErrorPrefix == <<"E", "r", "r", "o", "r", " ">>
ErrorSuffix ==
    <<":", " ", "T", "h", "a", "t", "'", "s", " ", "a", "l", "l", " ",
      "w", "e", " ", "k", "n", "o", "w">>
MimeAscii == <<"text/plain; charset=us-ascii">>

error_response(e) ==
    LET message == ErrorPrefix \o to_string(e) \o ErrorSuffix IN
    b_body(b_header(b_header(Builder(e), <<"Content-Type">>, MimeAscii),
                    <<"Content-Length">>, to_string(Len(message))),
           message)

\* the Static arm: rewind, read to end, classify with `file -ib`
static_response(s) ==
    b_body(b_header(b_header(Builder(s.status), <<"Content-Type">>, MimeAscii),
                    <<"Content-Length">>, to_string(Len(s.data))),
           s.data)

RECURSIVE split(_, _)
\* str::split on a one-token separator
split(text, sep) ==
    IF \A i \in 1..Len(text) : text[i] # sep THEN <<text>>
    ELSE LET i == CHOOSE j \in 1..Len(text) :
                      text[j] = sep /\ \A h \in 1..(j - 1) : text[h] # sep
         IN <<SubSeq(text, 1, i - 1)>> \o split(SubSeq(text, i + 1, Len(text)), sep)

\* str::split_once: <<>> for None, <<key, value>> for Some
split_once(line, sep) ==
    IF \A i \in 1..Len(line) : line[i] # sep THEN <<>>
    ELSE LET i == CHOOSE j \in 1..Len(line) :
                      line[j] = sep /\ \A h \in 1..(j - 1) : line[h] # sep
         IN <<SubSeq(line, 1, i - 1), SubSeq(line, i + 1, Len(line))>>

RECURSIVE fold_headers(_, _)
fold_headers(b, lines) ==
    IF lines = <<>> THEN b
    ELSE LET kv == split_once(Head(lines), "=") IN
         fold_headers(IF kv = <<>> THEN b ELSE b_header(b, kv[1], kv[2]),
                      Tail(lines))

InvalidUtf8 == "\\xff"
from_utf8_ok(bytes) == \A i \in 1..Len(bytes) : bytes[i] # InvalidUtf8

\* Child::wait_with_output: only piped streams are captured; the stage's
\* stderr is a temporary file, not a pipe, so output.stderr is empty
wait_with_output(child) ==
    [stdout |-> IF child.stdout_taken THEN <<>> ELSE child.out,
     stderr |-> IF child.stderr_piped THEN child.err ELSE <<>>]

\* the all-stages-succeeded arm of the Chain resolution: a response, or the
\* InternalError to resolve next
chain_response(output, status) ==
    IF ~from_utf8_ok(output.stderr)
    THEN [retry |-> TRUE, st |-> InternalError(500, "Error reading utf-8 from header output"),
          resp |-> NoResp]
    ELSE [retry |-> FALSE, st |-> NoState,
          resp |-> b_body(b_header(fold_headers(Builder(status),
                                                split(output.stderr, "\n")),
                                   <<"Content-Length">>,
                                   to_string(Len(output.stdout))),
                          output.stdout)]

\* a variant that appends the header instead of replacing it
serve_finish_append(r) ==
    IF ~r.ok THEN r
    ELSE [r EXCEPT !.headers =
            Append(@, [name |-> HdrContentLength, value |-> to_string(Len(r.body))])]

\* the tail of serve: overwrite Content-Length with the exact body size
serve_finish(r) ==
    IF ~r.ok THEN r
    ELSE [r EXCEPT !.headers = headers_insert(@, HdrContentLength, to_string(Len(r.body)))]

(***************************************************************************)
(* Requests.                                                               *)
(***************************************************************************)
Slash == "/"
SegNames == {SegA, SegB, DotDot, IndexName}
LayerSeqs == UNION {[1..n -> SegNames] : n \in 0..MaxLayers}

RECURSIVE join_path(_)
join_path(ls) ==
    IF ls = <<>> THEN <<>> ELSE <<Slash>> \o Head(ls) \o join_path(Tail(ls))

\* the URI paths of the requests: with and without a trailing slash
UriPaths ==
    {join_path(ls) \o <<Slash>> : ls \in LayerSeqs}
    \cup {join_path(ls) : ls \in LayerSeqs \ {<<>>}}

\* get_params_and_layers: the path split on "/", empty pieces dropped
path_layers(uri) == SelectSeq(split(uri, Slash), LAMBDA piece : piece # <<>>)

\* request bodies, and what a stage may write to its stdout
Bodies == {<<"h", "i">>}
Outputs == {<<>>, <<"o", "u", "t">>}
\* an output one byte longer than a pipe holds
BigOutput == [i \in 1..(PipeCap + 1) |-> "x"]
Incoming == <<"incoming">>

\* what a stage may write to its stderr
\* (well-formed header lines; bytes that are not UTF-8; a line without `=`
\* followed by a line whose key is no legal header name)
BadLines == <<"X-Foo", "\n", "b", "a", "d", " ", "k", "e", "y", "=", "v", "\n">>
ErrTexts ==
    {<<"X-Foo", "=", "b", "a", "r", "\n", "Content-Length", "=", "9", "\n">>,
     <<InvalidUtf8, "\n">>,
     BadLines}

\* how a stage may end: `exit ${s}` for a status s of the table, a literal
\* exit code, or death by a signal
StageStatuses == {200, 201, 404}
\* (an unset variable expands to nothing, and a bare `exit` after no command
\* exits 0)
shell_exit(e, s) ==
    IF to_string(s) \in DOMAIN e THEN parse_int(e[to_string(s)]) % 256 ELSE 0
ExitChoices(e) ==
    {shell_exit(e, s) : s \in StageStatuses} \cup {0, Len(EXIT_CODES), NoCode}

(***************************************************************************)
(* main(): startup.                                                        *)
(***************************************************************************)
NoEnv == [x \in {} |-> <<>>]
NoCall == <<>>
NoError == <<>>
NoWalk == [over |-> <<>>, base_checks |-> <<>>]

Init ==
    /\ main_pc = "start"
    /\ env_i = 0
    /\ env = NoEnv
    /\ pc = "idle"
    /\ fs = EmptyTree
    /\ layers = <<>>
    /\ state = NoState
    /\ procs = <<>>
    /\ error = NoError
    /\ k = 0
    /\ call = NoCall
    /\ done = FALSE
    /\ walk = NoWalk
    /\ resp = NoResp

task_vars == <<pc, fs, layers, state, procs, error, k, call, done, walk, resp>>

\* argument parsing, bind, canonicalize, is_dir: any of them may end main
StartUp ==
    /\ main_pc = "start"
    /\ main_pc' \in {"install", "exited"}
    /\ UNCHANGED <<env_i, env>>
    /\ UNCHANGED task_vars

\* a variant that keeps the first value of a repeated key
install_var_first(e, i) ==
    IF to_string(EXIT_CODES[i + 1]) \in DOMAIN e THEN e
    ELSE set_var(e, to_string(EXIT_CODES[i + 1]), to_string(i))

\* one iteration of the set_var loop
install_var(e, i) == set_var(e, to_string(EXIT_CODES[i + 1]), to_string(i))

InstallVar ==
    /\ main_pc = "install"
    /\ env_i < Len(EXIT_CODES)
    /\ env' = install_var(env, env_i)
    /\ env_i' = env_i + 1
    /\ UNCHANGED main_pc
    /\ UNCHANGED task_vars

\* a variant that starts the accept loop while the loop over the table runs
StartServing_early ==
    /\ main_pc = "install"
    /\ main_pc' = "serving"
    /\ UNCHANGED <<env_i, env>>
    /\ UNCHANGED task_vars

\* http_server / https_server: the accept loop begins
StartServing ==
    /\ main_pc = "install"
    /\ env_i = Len(EXIT_CODES)
    /\ main_pc' = "serving"
    /\ UNCHANGED <<env_i, env>>
    /\ UNCHANGED task_vars

(***************************************************************************)
(* serve: one request.                                                     *)
(***************************************************************************)
\* serve_help after the body is buffered: the walk from the base directory
serve_help(f, os, ls, body) ==
    handle_layer(f, os, <<>>, BaseDir, ls, Static(body, Incoming, 200))

\* the trees a request for the layers ls can tell apart
TreesAlong == [ls \in LayerSeqs |-> {visible(f, ls) : f \in FileSystems}]

Serve ==
    /\ main_pc = "serving"
    /\ pc = "idle"
    /\ \E uri \in UriPaths, body \in Bodies, os \in {"none", "spawn"} :
        \E f \in TreesAlong[path_layers(uri)] :
        LET ls == path_layers(uri)
            w == serve_help(f, os, ls, body)
        IN  /\ fs' = f
            /\ layers' = ls
            /\ state' = inner(w)
            /\ procs' = w.procs
            /\ call' = w.call
            /\ done' = w.done
            /\ walk' = [over |-> ls, base_checks |-> w.checks]
    /\ pc' = "resolve"
    /\ k' = 0
    /\ error' = NoError
    /\ resp' = NoResp
    /\ UNCHANGED <<main_pc, env_i, env>>

\* a running stage ends by itself, having written all of its output: an
\* output that fits the pipe the server holds; what a stage writes to a pipe
\* that the next stage reads, of any size, is not kept here
ChildExit ==
    /\ \E pid \in 1..Len(procs) :
        /\ procs[pid].st = "running"
        /\ \E code \in ExitChoices(env), err \in ErrTexts,
              out \in (IF procs[pid].stdout_taken THEN {<<>>} ELSE Outputs) :
            procs' = [procs EXCEPT ![pid].st = "zombie", ![pid].code = code,
                                  ![pid].out = out, ![pid].err = err]
    /\ UNCHANGED <<main_pc, env_i, env, pc, fs, layers, state, error, k, call,
                   done, walk, resp>>

\* a running stage writes more than the pipe holds while the read end, kept
\* by the server in Child::stdout, is not read: the write blocks
ChildBlock ==
    /\ \E pid \in 1..Len(procs) :
        /\ procs[pid].st = "running"
        /\ ~procs[pid].stdout_taken
        /\ procs' = [procs EXCEPT ![pid].st = "blocked",
                                  ![pid].out = SubSeq(BigOutput, 1, PipeCap)]
    /\ UNCHANGED <<main_pc, env_i, env, pc, fs, layers, state, error, k, call,
                   done, walk, resp>>

\* the ErrorCode and InternalError arms
ResolveError ==
    /\ pc = "resolve"
    /\ state.tag \in {"ErrorCode", "InternalError"}
    /\ resp' = serve_finish(error_response(state.status))
    /\ pc' = "done"
    /\ UNCHANGED <<main_pc, env_i, env, fs, layers, state, procs, error, k,
                   call, done, walk>>

\* the Static arm
ResolveStatic ==
    /\ pc = "resolve"
    /\ state.tag = "Static"
    /\ resp' = serve_finish(static_response(state))
    /\ pc' = "done"
    /\ UNCHANGED <<main_pc, env_i, env, fs, layers, state, procs, error, k,
                   call, done, walk>>

\* Child::wait: reaps the child and answers its exit code
wait(ps, pid) == [ps EXCEPT ![pid].st = "reaped"]

\* a variant that goes on waiting for the stages after a failed one
chain_step_waits_all(ps, entry, err) ==
    LET code == to_exit_code(ps[entry.pid].code) IN
    [procs |-> wait(ps, entry.pid),
     error |-> IF err # NoError \/ status_is_ok(code) THEN err
               ELSE <<[origin |-> entry.origin, code |-> code]>>]

\* one iteration of the Chain arm's loop over the stages
chain_step(ps, entry, err) ==
    IF err = NoError THEN
        LET code == to_exit_code(ps[entry.pid].code) IN
        [procs |-> wait(ps, entry.pid),
         error |-> IF status_is_ok(code) THEN NoError
                   ELSE <<[origin |-> entry.origin, code |-> code]>>]
    ELSE [procs |-> kill(ps, entry.pid), error |-> err]

ResolveChainStep ==
    /\ pc = "resolve"
    /\ state.tag = "Chain"
    /\ k < Len(state.chain)
    \* wait blocks until the child has ended
    /\ error = NoError => procs[state.chain[k + 1].pid].st \in {"zombie", "reaped"}
    /\ LET r == chain_step(procs, state.chain[k + 1], error) IN
        /\ procs' = r.procs
        /\ error' = r.error
    /\ k' = k + 1
    /\ UNCHANGED <<main_pc, env_i, env, pc, fs, layers, state, call, done, walk,
                   resp>>

\* a variant that does not step back from the failed stage's own component
rewalk_depth_full(origin, basepath, ls) ==
    Clamp(SatSub(components_count(origin), components_count(basepath)), 0, Len(ls))

\* the depth of the re-walk after a stage at origin failed
rewalk_depth(origin, basepath, ls) ==
    Clamp(SatSub(SatSub(components_count(origin), components_count(basepath)), 1),
          0, Len(ls))

RECURSIVE forget(_)
\* the children the model still remembers when a walk begins: the ones not
\* yet waited for, and the latest MaxSpawns - 1 of the ones that were (a
\* child that was waited for has left the process table)
forget(ps) ==
    LET reaped == {i \in 1..Len(ps) : ps[i].st = "reaped"} IN
    IF Cardinality(reaped) < MaxSpawns THEN ps
    ELSE LET i == CHOOSE j \in reaped : \A h \in reaped : j <= h
         IN forget(SubSeq(ps, 1, i - 1) \o SubSeq(ps, i + 1, Len(ps)))

\* a stage failed: walk again with ErrorCode(code), then resolve the result
ResolveRewalk ==
    /\ pc = "resolve"
    /\ state.tag = "Chain"
    /\ k = Len(state.chain)
    /\ error # NoError
    /\ \E os \in {"none", "spawn"}, ps \in {forget(scrub(procs))},
          len \in {rewalk_depth(error[1].origin, BaseDir, layers)} :
        \E w \in {handle_layer(fs, os, ps, BaseDir, SubSeq(layers, 1, len),
                                ErrorCode(error[1].code))} :
            /\ state' = inner(w)
            /\ procs' = w.procs
            /\ call' = w.call
            /\ done' = w.done
            /\ walk' = [over |-> SubSeq(layers, 1, len), base_checks |-> w.checks]
    /\ k' = 0
    /\ error' = NoError
    /\ UNCHANGED <<main_pc, env_i, env, pc, fs, layers, resp>>

\* every stage succeeded: the last child's output becomes the response
ResolveChainEnd ==
    /\ pc = "resolve"
    /\ state.tag = "Chain"
    /\ k = Len(state.chain)
    /\ error = NoError
    /\ IF state.chain = <<>> THEN
            /\ state' = InternalError(500, "Resolving empty chain")
            /\ UNCHANGED <<pc, resp>>
       ELSE LET last == procs[state.chain[Len(state.chain)].pid]
                r == chain_response(wait_with_output(last), state.status)
            IN  IF r.retry
                THEN state' = r.st /\ UNCHANGED <<pc, resp>>
                ELSE /\ resp' = serve_finish(r.resp)
                     /\ pc' = "done"
                     /\ UNCHANGED state
    /\ UNCHANGED <<main_pc, env_i, env, fs, layers, procs, error, k, call, done,
                   walk>>

\* the connection task takes the next request
Finish ==
    /\ pc = "done"
    /\ pc' = "idle"
    /\ fs' = EmptyTree
    /\ layers' = <<>>
    /\ state' = NoState
    /\ procs' = <<>>
    /\ error' = NoError
    /\ k' = 0
    /\ call' = NoCall
    /\ done' = FALSE
    /\ walk' = NoWalk
    /\ resp' = NoResp
    /\ UNCHANGED <<main_pc, env_i, env>>

Next ==
    \/ StartUp
    \/ InstallVar
    \/ StartServing
    \/ Serve
    \/ ChildExit
    \/ ChildBlock
    \/ ResolveError
    \/ ResolveStatic
    \/ ResolveChainStep
    \/ ResolveRewalk
    \/ ResolveChainEnd
    \/ Finish

Spec == Init /\ [][Next]_vars

\* The resolver is straight-line synchronous code: it takes its next step
\* whenever it can; and while it waits for a running child, that child ends
\* by itself unless it blocks.
Resolve ==
    \/ ResolveError
    \/ ResolveStatic
    \/ ResolveChainStep
    \/ ResolveRewalk
    \/ ResolveChainEnd

SpecLive == Spec /\ WF_vars(Resolve \/ ChildExit)

(***************************************************************************)
(* handle_file on its own: every ProcessingState it accepts, chains of     *)
(* several live children included, at every path of a served tree.         *)
(***************************************************************************)
MaxChain == 2       \* longest chain handed to handle_file

\* the environment after i iterations of the set_var loop: every key set so
\* far holds the index of its latest iteration
installed(i) ==
    [key \in {to_string(EXIT_CODES[j]) : j \in 1..i} |->
        to_string((CHOOSE j \in 1..i :
                      /\ to_string(EXIT_CODES[j]) = key
                      /\ \A h \in (j + 1)..i : to_string(EXIT_CODES[h]) # key) - 1)]

\* the environment after the whole loop
FullTable == installed(Len(EXIT_CODES))

\* a chain of n live children as handle_file and the resolver leave it: each
\* child reads the stdout of the one before, only the last stdout is untaken
ChainProcs(n, sts) ==
    [i \in 1..n |->
        [NewChild(Append(SpineDir(i - 1), IndexName),
                  IF i = 1 THEN FileStdin(<<"h", "i">>) ELSE PipeStdin(i - 1))
            EXCEPT !.st = sts[i], !.stdout_taken = (i < n)]]
ChainOf(n) == [i \in 1..n |-> [pid |-> i, origin |-> Append(SpineDir(i - 1), IndexName)]]

Incomings ==
    {[prev |-> ErrorCode(e), procs |-> <<>>] : e \in {403, 404, 500}}
    \cup {[prev |-> InternalError(500, "Error running command"), procs |-> <<>>]}
    \cup {[prev |-> HttpError, procs |-> <<>>]}
    \cup {[prev |-> Static(<<"h", "i">>, Incoming, e), procs |-> <<>>] : e \in {200, 404}}
    \cup UNION {{[prev |-> Chain(ChainOf(n), e), procs |-> ChainProcs(n, sts)] :
                    sts \in [1..n -> {"running", "zombie"}], e \in {200, 201, 404}} :
                n \in 1..MaxChain}

InitHF ==
    /\ main_pc = "serving"
    /\ env_i = Len(EXIT_CODES)
    /\ env = installed(Len(EXIT_CODES))
    /\ pc = "hf"
    /\ fs \in TreesAlong[<<SegA>>]
    /\ layers = <<>>
    /\ \E file \in {BaseDir, SpineDir(1)}, inc \in Incomings :
        /\ call = <<[file |-> file, prev |-> inc.prev, procs |-> inc.procs]>>
        /\ state = inc.prev
        /\ procs = inc.procs
    /\ error = NoError
    /\ k = 0
    /\ done = FALSE
    /\ walk = NoWalk
    /\ resp = NoResp

HandleFile ==
    /\ pc = "hf"
    /\ \E os \in OsFaults :
        LET r == handle_file(fs, os, procs, call[1].file, call[1].prev) IN
        /\ state' = r.st
        /\ procs' = r.procs
    /\ pc' = "hf_done"
    /\ UNCHANGED <<main_pc, env_i, env, fs, layers, error, k, call, done, walk,
                   resp>>

NextHF == HandleFile

SpecHF == InitHF /\ [][NextHF]_vars

(***************************************************************************)
(* The resolver on its own: chains of several live children, as the Chain  *)
(* arm of handle_file builds them, resolved against the base directory.    *)
(***************************************************************************)
InitRC ==
    /\ main_pc = "serving"
    /\ env_i = Len(EXIT_CODES)
    /\ env = FullTable
    /\ pc = "resolve"
    /\ fs \in {f \in TreesAlong[<<>>] : f.esc = {}}
    /\ layers = <<>>
    /\ \E n \in 1..MaxChain :
        /\ state = Chain(ChainOf(n), 200)
        /\ procs = ChainProcs(n, [i \in 1..n |-> "running"])
    /\ error = NoError
    /\ k = 0
    /\ call = NoCall
    /\ done = FALSE
    /\ walk = NoWalk
    /\ resp = NoResp

NextRC ==
    \/ ChildExit
    \/ ChildBlock
    \/ ResolveChainStep
    \/ ResolveRewalk
    \/ ResolveChainEnd
    \/ ResolveError
    \/ ResolveStatic

SpecRC == InitRC /\ [][NextRC]_vars

(***************************************************************************)
(* Properties.                                                             *)
(***************************************************************************)
HasHidden(ls) == \E i \in 1..Len(ls) : ls[i] = DotDot \/ starts_with(ls[i], Dot)
Target == BaseDir \o layers
MapsToStage(p) == is_executable(fs, candidate(fs, p))

\* the set_var loop and its closed form agree
EnvIsInstalled ==
    (pc = "idle" /\ main_pc \in {"install", "serving"}) => env = installed(env_i)

\* C1: a request with a layer equal to `..` or starting with `.`, at any
\* position, walks to ErrorCode(403), is answered 403, and no child process
\* is spawned (nor handle_file invoked) while it is served.
C1_HiddenLayerForbidden ==
    (pc \in {"resolve", "done"} /\ HasHidden(layers)) =>
        /\ state = ErrorCode(403)
        /\ procs = <<>>
        /\ call = NoCall
        /\ pc = "done" => (resp.ok /\ resp.status = 403)

\* a request for /a/.index, answered 403 although a/.index exists
C1_Witness ==
    /\ pc = "done"
    /\ layers = <<SegA, IndexName>>
    /\ exists(fs, Append(SpineDir(1), IndexName))
    /\ resp.status = 403

\* C2: a request whose resolved path lies outside the canonical base
\* directory is answered 403; no file outside the base directory is opened
\* as a Static or spawned as a stage.
C2_EscapeForbidden ==
    /\ \A pid \in 1..Len(procs) : ~Outside(fs, procs[pid].origin)
    /\ state.tag = "Static" => ~Outside(fs, state.origin)
    /\ (pc = "done" /\ ~HasHidden(layers) /\ Outside(fs, candidate(fs, Target)))
        => resp.status = 403

\* C3, as the code has it: a request for a directory is served from the
\* directory's `.index` when that is a file (status 200, its content) or an
\* executable (the only stage spawned by the walk); it is answered 404 when
\* the directory has no `.index`, and 418 when `.index` is itself a directory.
C3_DirectoryIndexOr404 ==
    (pc = "done" /\ ~HasHidden(layers) /\ is_dir(fs, Target)) =>
        LET idx == Append(Target, IndexName) IN
        /\ ~exists(fs, idx) => (resp.ok /\ resp.status = 404 /\ procs = <<>>)
        /\ is_dir(fs, idx) => (resp.ok /\ resp.status = 418 /\ procs = <<>>)
        /\ KindIn(fs.kind, idx) = "file" =>
                (resp.ok /\ resp.status = 200 /\ resp.body = FileContent(idx))
        /\ is_executable(fs, idx) => (procs # <<>> => procs[1].origin = idx)

\* GET /a/ where a is a directory without `.index`: 404
C3_Witness ==
    /\ pc = "done"
    /\ layers = <<SegA>>
    /\ is_dir(fs, SpineDir(1))
    /\ ~exists(fs, Append(SpineDir(1), IndexName))
    /\ resp.status = 404

\* C3 as stated: a request for a directory is served from the directory's
\* `.index` when it exists, and is answered 418 when the directory has no
\* `.index`.
C3_DirectoryIndex ==
    (pc = "done" /\ ~HasHidden(layers) /\ is_dir(fs, Target)) =>
        LET idx == Append(Target, IndexName) IN
        /\ ~exists(fs, idx) => resp.status = 418
        /\ KindIn(fs.kind, idx) = "file" =>
                (resp.ok /\ resp.status = 200 /\ resp.body = FileContent(idx))

\* C4: when the candidate path of handle_file does not exist, a 2xx incoming
\* state has its chain killed and becomes ErrorCode(404); an incoming state
\* that is not 2xx is returned unchanged, nothing killed; and 404 arises from
\* no other incoming state.
C4_MissingFileRule ==
    (pc = "hf_done" /\ ~exists(fs, candidate(fs, call[1].file))) =>
        LET prev == call[1].prev IN
        /\ status_is_ok(status_of(prev)) =>
            /\ state = ErrorCode(404)
            /\ \A i \in 1..Len(prev.chain) :
                /\ procs[prev.chain[i].pid].sigkill
                /\ procs[prev.chain[i].pid].st # "running"
        /\ ~status_is_ok(status_of(prev)) =>
            /\ state = prev
            /\ procs = call[1].procs
        /\ (state = ErrorCode(404) /\ prev # ErrorCode(404))
            => status_is_ok(status_of(prev))

\* a chain of two running stages with status 404 met a missing path and came
\* back as it was
C4_Witness ==
    /\ pc = "hf_done"
    /\ ~exists(fs, candidate(fs, call[1].file))
    /\ call[1].prev.tag = "Chain"
    /\ call[1].prev.status = 404
    /\ Len(call[1].prev.chain) = 2
    /\ state = call[1].prev
    /\ \A i \in 1..Len(procs) : procs[i].st = "running" /\ ~procs[i].sigkill

\* under the environment the startup loop leaves, every status of the table
\* comes back from its published exit code
TableRoundTrips ==
    \A i \in 1..Len(EXIT_CODES) :
        to_exit_code(shell_exit(FullTable, EXIT_CODES[i])) = EXIT_CODES[i]
BeyondTableIs500 ==
    \A c \in (Len(EXIT_CODES)..255) \cup {NoCode} : to_exit_code(c) = 500

\* C5: for every status s of the table, a stage exiting with the value
\* published in variable "<s>" is mapped back to s; exit code 0 maps to 200;
\* an exit code beyond the table, or none, maps to 500; and the code the
\* resolver records for a failed stage is the mapping of its exit code.
C5_ExitCodeRoundTrip ==
    /\ main_pc = "serving" => (env = FullTable /\ TableRoundTrips)
    /\ to_exit_code(0) = 200
    /\ BeyondTableIs500
    /\ (pc = "resolve" /\ error # NoError) =>
        \E i \in 1..k :
            /\ state.chain[i].origin = error[1].origin
            /\ error[1].code = to_exit_code(procs[state.chain[i].pid].code)

\* a stage that ended with `exit ${404}`, exit code 28, was recorded as 404
C5_Witness ==
    /\ main_pc = "serving"
    /\ pc = "resolve"
    /\ error # NoError
    /\ error[1].code = 404
    /\ \E pid \in 1..Len(procs) :
        /\ procs[pid].st = "reaped"
        /\ procs[pid].code = shell_exit(env, 404)
        /\ procs[pid].code = 28

\* the 0-based index of the last occurrence of s in the table
LastIndex(s) ==
    CHOOSE i \in 0..(Len(EXIT_CODES) - 1) :
        /\ EXIT_CODES[i + 1] = s
        /\ \A j \in (i + 1)..(Len(EXIT_CODES) - 1) : EXIT_CODES[j + 1] # s

\* the table's keys and the text of each status's last index, computed once
StatusKeys == [i \in 1..Len(EXIT_CODES) |-> to_string(EXIT_CODES[i])]
LastIndexText == [i \in 1..Len(EXIT_CODES) |-> to_string(LastIndex(EXIT_CODES[i]))]

\* C6: once the server serves, the environment holds exactly one variable per
\* status of the table, whose value is the decimal index of the LAST
\* occurrence of the status in the table: 5 for status 200.
C6_EnvHoldsLastIndex ==
    main_pc = "serving" =>
        /\ DOMAIN env = {StatusKeys[i] : i \in 1..Len(EXIT_CODES)}
        /\ \A i \in 1..Len(EXIT_CODES) : env[StatusKeys[i]] = LastIndexText[i]
        /\ env[to_string(200)] = to_string(5)

C6_Witness ==
    /\ main_pc = "serving"
    /\ env[<<"2", "0", "0">>] = <<"5">>
    /\ env[<<"4", "0", "4">>] = <<"2", "8">>

\* C6 as stated: every variable holds an index of its status, and the variable
\* for status 200 holds index 0.
C6_EnvHoldsIndexZeroFor200 ==
    main_pc = "serving" =>
        /\ \A i \in 1..Len(EXIT_CODES) :
            \E j \in 1..Len(EXIT_CODES) :
                /\ EXIT_CODES[j] = EXIT_CODES[i]
                /\ env[to_string(EXIT_CODES[i])] = to_string(j - 1)
        /\ env[to_string(200)] = to_string(0)

\* C7: when a stage exited with a code mapped to a status c that is not 2xx
\* and the re-walk with ErrorCode(c) reaches a regular file, the response has
\* status c and the content of that file as its body.
C7_ErrorPageKeepsStatus ==
    (/\ pc = "done"
     /\ call # NoCall
     /\ call[1].prev.tag = "ErrorCode"
     /\ KindIn(fs.kind, candidate(fs, call[1].file)) = "file") =>
        LET c == call[1].prev.status IN
        /\ ~status_is_ok(c)
        /\ \E pid \in 1..Len(procs) :
            procs[pid].st = "reaped" /\ to_exit_code(procs[pid].code) = c
        /\ resp.ok
        /\ resp.status = c
        /\ resp.body = FileContent(candidate(fs, call[1].file))

\* GET /a with a an executable that ends with `exit ${404}` and a plain
\* base/.index: status 404, body the content of base/.index
C7_Witness ==
    /\ pc = "done"
    /\ layers = <<SegA>>
    /\ is_executable(fs, SpineDir(1))
    /\ call # NoCall
    /\ call[1].file = BaseDir
    /\ call[1].prev = ErrorCode(404)
    /\ resp.status = 404
    /\ resp.body = FileContent(Append(BaseDir, IndexName))

\* C8: when the layers /a and /a/b of a request both map to executable
\* stages, the walk spawns both, in path order, into one chain, and the
\* second stage reads the stdout of the first.
C8_ChainComposition ==
    (/\ pc = "resolve"
     /\ k = 0
     /\ call # NoCall
     /\ call[1].prev.tag = "Static"
     /\ state.tag = "Chain"
     /\ Len(layers) = 2
     /\ MapsToStage(Append(BaseDir, layers[1]))
     /\ MapsToStage(Target)) =>
        /\ Len(state.chain) = 2
        /\ state.chain[1].origin = candidate(fs, Append(BaseDir, layers[1]))
        /\ state.chain[2].origin = candidate(fs, Target)
        /\ state.chain[1].pid < state.chain[2].pid
        /\ procs[state.chain[2].pid].stdin = PipeStdin(state.chain[1].pid)

C10_ContentLengthExact ==
    (pc = "done" /\ resp.ok) =>
        LET cl == header_values(resp.headers, HdrContentLength) IN
        /\ Len(cl) = 1
        /\ cl[1].value = to_string(Len(resp.body))
        /\ parse_int(cl[1].value) = Len(resp.body)

\* a chain whose stage wrote its own Content-Length line to stderr and three
\* bytes to stdout
C10_Witness ==
    /\ pc = "done"
    /\ resp.ok
    /\ state.tag = "Chain"
    /\ procs[state.chain[1].pid].err
        = <<"X-Foo", "=", "b", "a", "r", "\n", "Content-Length", "=", "9", "\n">>
    /\ resp.body = <<"o", "u", "t">>
    /\ header_values(resp.headers, HdrContentLength)
        = <<[name |-> HdrContentLength, value |-> <<"3">>]>>

\* the levels of the latest walk: level i stands at VisitedDir(i); the walk
\* descends until a layer is hidden or the layers are used up
DeepestLevel ==
    IF \E i \in 1..Len(walk.over) : hidden_layer(walk.over[i])
    THEN (CHOOSE i \in 1..Len(walk.over) :
            /\ hidden_layer(walk.over[i])
            /\ \A h \in 1..(i - 1) : ~hidden_layer(walk.over[h])) - 1
    ELSE Len(walk.over)
VisitedDir(i) == BaseDir \o SubSeq(walk.over, 1, i)
LevelsWithBase ==
    {i \in 0..DeepestLevel : exists(fs, Append(VisitedDir(i), BaseName))}
\* the state is as the latest walk returned it
FreshWalk == pc \in {"resolve", "done"} /\ k = 0

\* C11: the walk returns Done exactly when a directory it visited holds
\* `.base`; the state it returns is the one produced at the deepest level
\* (403 for a hidden layer, handle_file's answer otherwise), unmodified; and
\* `.base` is tested from the deepest level up to the deepest directory that
\* holds it and at no enclosing level.
C11_DonePropagation ==
    FreshWalk =>
        LET n == DeepestLevel
            top == IF LevelsWithBase = {} THEN 0
                   ELSE CHOOSE i \in LevelsWithBase : \A j \in LevelsWithBase : j <= i
        IN  /\ done = (LevelsWithBase # {})
            /\ walk.base_checks = [j \in 1..(n - top + 1) |-> VisitedDir(n - j + 1)]
            /\ IF n < Len(walk.over)
               THEN state = ErrorCode(403) /\ call = NoCall
               ELSE /\ call # NoCall
                    /\ call[1].file = VisitedDir(n)
                    /\ state \in {handle_file(fs, os, call[1].procs, call[1].file,
                                               call[1].prev).st : os \in {"none", "spawn"}}

\* GET /a/b with `.base` in base/a and in base, none in base/a/b: the walk
\* came back Done from base/a and base/.base was never tested
C11_Witness ==
    /\ FreshWalk
    /\ layers = <<SegA, SegB>>
    /\ walk.over = layers
    /\ exists(fs, Append(BaseDir, BaseName))
    /\ exists(fs, Append(SpineDir(1), BaseName))
    /\ is_dir(fs, SpineDir(2))
    /\ ~exists(fs, Append(SpineDir(2), BaseName))
    /\ done
    /\ walk.base_checks = <<SpineDir(2), SpineDir(1)>>

\* C12: a client error raised by the walk itself (403, 404, 418; no stage
\* ran) becomes the response status, and the resolver walks again with that
\* ErrorCode as the incoming state to look up an error page, as it does for a
\* stage's exit code.
C12_WalkerErrorReentersWalker ==
    (/\ pc = "done"
     /\ procs = <<>>
     /\ state.tag = "ErrorCode"
     /\ state.status \in {403, 404, 418}) =>
        /\ resp.ok
        /\ resp.status = state.status
        /\ call # NoCall
        /\ call[1].prev = ErrorCode(state.status)

\* a header stream with a non-empty line that has no `=` or whose key is no
\* legal header name
Malformed(text) ==
    \E i \in 1..Len(split(text, "\n")) :
        LET line == split(text, "\n")[i] IN
        /\ line # <<>>
        /\ split_once(line, "=") = <<>> \/ ~valid_name(split_once(line, "=")[1])

\* C13: when every stage of a chain succeeded and the final child's header
\* stream (stderr) is not UTF-8 or holds a malformed header line, the
\* response is the built-in 500 page.
C13_ProtocolViolationIs500 ==
    (/\ pc = "done"
     /\ procs # <<>>
     /\ procs[Len(procs)].st = "reaped"
     /\ status_is_ok(to_exit_code(procs[Len(procs)].code))
     /\ ~from_utf8_ok(procs[Len(procs)].err) \/ Malformed(procs[Len(procs)].err)) =>
        resp = serve_finish(error_response(500))

\* C14: the loop over the table runs once, in index order, and has ended
\* before the accept loop starts: whenever the server serves, a request is
\* being handled or a child exists, the environment is the one the whole loop
\* leaves, and the loop index never passes the table's length.
C14_TableInstalledBeforeServing ==
    /\ env_i \in 0..Len(EXIT_CODES)
    /\ main_pc \in {"start", "install"} => (pc = "idle" /\ procs = <<>>)
    /\ main_pc = "install" => env = installed(env_i)
    /\ main_pc = "start" => (env = NoEnv /\ env_i = 0)
    /\ (main_pc = "serving" \/ pc # "idle" \/ procs # <<>>) =>
        /\ main_pc = "serving"
        /\ env_i = Len(EXIT_CODES)
        /\ env = FullTable

\* a stage runs, spawned with the whole table in its environment
C14_Witness ==
    /\ main_pc = "serving"
    /\ pc = "resolve"
    /\ \E pid \in 1..Len(procs) : procs[pid].st = "running"
    /\ env_i = Len(EXIT_CODES)
    /\ env[to_string(511)] = to_string(Len(EXIT_CODES) - 1)

\* the resolver has gone through the chain and holds a failed stage
StageFailed ==
    pc = "resolve" /\ state.tag = "Chain" /\ k = Len(state.chain) /\ error # NoError

\* C15: when a stage with origin o failed with mapped status c, the next step
\* walks from the base directory over layers[0..depth] with ErrorCode(c) as
\* the incoming state, depth being components(o) - components(base) - 1 kept
\* within 0..len(layers); a failed stage file at /x/y leads to a walk of /x.
C15_RewalkLocation ==
    [][StageFailed =>
        LET o == error[1].origin
            c == error[1].code
            raw == Len(o) - Len(BaseDir) - 1
            depth == IF raw < 0 THEN 0
                     ELSE IF raw > Len(layers) THEN Len(layers) ELSE raw
        IN  /\ ~status_is_ok(c)
            /\ walk'.over = SubSeq(layers, 1, depth)
            /\ call' # NoCall
            /\ call'[1].file = BaseDir \o SubSeq(layers, 1, depth)
            /\ call'[1].prev = ErrorCode(c)
            /\ (Len(layers) = 2 /\ o = Target) =>
                    call'[1].file = Append(BaseDir, layers[1])
            /\ pc' = "resolve" /\ k' = 0 /\ error' = NoError
    ]_vars

\* GET /a/b with base/a/b an executable that ended with `exit ${404}`: the
\* resolver walked /a again with ErrorCode(404)
C15_Witness ==
    /\ pc = "resolve"
    /\ k = 0
    /\ layers = <<SegA, SegB>>
    /\ walk.over = <<SegA>>
    /\ call # NoCall
    /\ call[1].file = SpineDir(1)
    /\ call[1].prev = ErrorCode(404)
    /\ \E pid \in 1..Len(procs) :
        /\ procs[pid].origin = SpineDir(2)
        /\ procs[pid].st = "reaped"
        /\ to_exit_code(procs[pid].code) = 404

\* the position in the chain of the stage the resolver recorded as failed
FailedAt ==
    CHOOSE i \in 1..Len(state.chain) : state.chain[i].origin = error[1].origin

\* C16: while a Chain is resolved, the stages before position k have been
\* visited in spawn order: up to the first stage whose mapped status is not
\* 2xx each was waited for, that stage is the one recorded with its origin
\* and code, every visited stage after it was killed and not waited for, and
\* the stages not yet visited are untouched; a response is built from the
\* final child only when every stage was waited for and mapped to 2xx.
C16_ChainResolutionOrder ==
    (pc \in {"resolve", "done"} /\ state.tag = "Chain") =>
        LET c == state.chain
            child(i) == procs[c[i].pid]
            ok(i) == status_is_ok(to_exit_code(child(i).code))
            last == IF error = NoError THEN k ELSE FailedAt
        IN  /\ \A i \in 1..Len(c) : i < Len(c) => c[i].pid < c[i + 1].pid
            /\ error # NoError =>
                /\ \E i \in 1..k : c[i].origin = error[1].origin
                /\ ~ok(FailedAt)
                /\ error[1].code = to_exit_code(child(FailedAt).code)
            /\ \A i \in 1..last :
                /\ child(i).st = "reaped"
                /\ i < last \/ error = NoError => ok(i)
            /\ \A i \in (last + 1)..k :
                /\ child(i).st = "zombie"
                /\ child(i).sigkill
            /\ \A i \in (k + 1)..Len(c) :
                /\ child(i).st # "reaped"
                /\ ~child(i).sigkill
            /\ pc = "done" =>
                /\ error = NoError
                /\ k = Len(c)
                /\ resp.ok => resp.body = child(Len(c)).out

\* a chain of two: the first stage failed with 404 and was recorded, the
\* second was killed while it ran and was not waited for
C16_Witness ==
    /\ pc = "resolve"
    /\ state.tag = "Chain"
    /\ Len(state.chain) = 2
    /\ k = 2
    /\ error = <<[origin |-> state.chain[1].origin, code |-> 404]>>
    /\ procs[state.chain[1].pid].st = "reaped"
    /\ procs[state.chain[2].pid].st = "zombie"
    /\ procs[state.chain[2].pid].sigkill
    /\ procs[state.chain[2].pid].code = NoCode

\* C17: when every stage of a chain succeeded, the response status is the
\* status the final stage's exit code maps to (201 for `exit ${201}`, 200 for
\* exit 0).
C17_ChainStatusFromExitCode ==
    (pc = "done" /\ state.tag = "Chain" /\ resp.ok) =>
        resp.status
            = to_exit_code(procs[state.chain[Len(state.chain)].pid].code)

SomeBlocked == \E pid \in 1..Len(procs) : procs[pid].st = "blocked"

\* C18: when every spawned child ends, a request that is being resolved is
\* eventually answered.
C18_ResolutionTerminates ==
    (pc = "resolve") ~> (pc = "done" \/ SomeBlocked)

\* C19: a Chain holds at most one child; a walk invokes handle_file at most
\* once, and the state it hands over is the buffered request body (Static,
\* 200) or an ErrorCode, never a Chain; so no child reads another child's
\* stdout, no child's stdout is taken, and the task never reaches the todo!()
\* of handle_code.
C19_ChainHoldsOneChild ==
    /\ state.tag = "Chain" => Len(state.chain) <= 1
    /\ Len(call) <= 1
    /\ call # NoCall =>
        \/ call[1].prev.tag = "ErrorCode"
        \/ \E body \in Bodies : call[1].prev = Static(body, Incoming, 200)
    /\ state.tag # "Panicked"
    /\ \A pid \in 1..Len(procs) :
        /\ procs[pid].stdin.kind # "pipe"
        /\ procs[pid].st # "reaped" => ~procs[pid].stdout_taken

\* GET /a/b where base/a/.index and base/a/b/.index are both executable: the
\* chain to resolve holds the stage of /a/b alone
C19_Witness ==
    /\ pc = "resolve"
    /\ layers = <<SegA, SegB>>
    /\ is_executable(fs, Append(SpineDir(1), IndexName))
    /\ is_executable(fs, Append(SpineDir(2), IndexName))
    /\ state.tag = "Chain"
    /\ Len(state.chain) = 1
    /\ state.chain[1].origin = Append(SpineDir(2), IndexName)
    /\ Len(procs) = 1

\* the resolver is in Child::wait for a stage that is blocked writing to its
\* stdout pipe, whose read end the resolver holds and has not begun to read
WaitsOnBlockedChild ==
    /\ pc = "resolve"
    /\ state.tag = "Chain"
    /\ k < Len(state.chain)
    /\ error = NoError
    /\ procs[state.chain[k + 1].pid].st = "blocked"
    /\ ~procs[state.chain[k + 1].pid].stdout_taken

\* C20: while a request is resolved some step is always possible, and the
\* resolver never waits for a child that is blocked writing to the stdout
\* pipe the resolver has not yet started to drain.
C20_NoResolverChildDeadlock ==
    pc = "resolve" => (ENABLED Next /\ ~WaitsOnBlockedChild)

\* tree f with every `.base` marker taken away
without_base(f) ==
    [f EXCEPT !.kind = [p \in SpinePaths |->
                            IF p[Len(p)] = BaseName THEN "missing" ELSE f.kind[p]]]

\* walks w (over a tree) and b (over the same tree without its markers) hand
\* the same pipeline state, children and handle_file invocation to the caller
SameOutcome(w, b) ==
    /\ ~b.done
    /\ inner(w) = inner(b)
    /\ w.procs = b.procs
    /\ w.call = b.call

\* C21: `.base` markers do not change the outcome.  Every walk, the one of
\* serve_help and the re-walk after a failed stage, leaves the resolver with
\* the pipeline state, the children and the handle_file invocation that the
\* same walk yields over the same tree with all `.base` files removed.
C21_BaseMarkersKeepOutcome ==
    [][/\ (pc = "idle" /\ pc' = "resolve") =>
            \E os \in {"none", "spawn"}, body \in Bodies :
                LET w == serve_help(fs', os, layers', body)
                    b == serve_help(without_base(fs'), os, layers', body)
                IN  /\ state' = inner(w) /\ procs' = w.procs /\ call' = w.call
                    /\ SameOutcome(w, b)
       /\ StageFailed =>
            \E os \in {"none", "spawn"} :
                LET ps == forget(scrub(procs))
                    ls == SubSeq(layers, 1,
                                 rewalk_depth(error[1].origin, BaseDir, layers))
                    w == handle_layer(fs, os, ps, BaseDir, ls,
                                      ErrorCode(error[1].code))
                    b == handle_layer(without_base(fs), os, ps, BaseDir, ls,
                                      ErrorCode(error[1].code))
                IN  /\ state' = inner(w) /\ procs' = w.procs /\ call' = w.call
                    /\ SameOutcome(w, b)
    ]_vars

\* GET /a/b with `.base` in base/a, base/a/b an executable that ended with
\* `exit ${404}` and base/a/.index a regular file: the re-walk of /a came
\* back Done with the error page, as it does without the marker
C21_Witness ==
    /\ pc = "resolve"
    /\ k = 0
    /\ layers = <<SegA, SegB>>
    /\ walk.over = <<SegA>>
    /\ exists(fs, Append(SpineDir(1), BaseName))
    /\ done
    /\ call # NoCall
    /\ call[1].prev = ErrorCode(404)
    /\ state = Static(FileContent(Append(SpineDir(1), IndexName)),
                      Append(SpineDir(1), IndexName), 404)
====
